---------------------------- MODULE Spec2Model ----------------------------
(***************************************************************************)
(* A model of the CHIP-8 emulator core: the call stack (src/src/ram.rs),   *)
(* the two decaying timers (src/src/timer.rs), the keyboard synchronizer   *)
(* (src/src/keyboard.rs) and the execution engine (src/src/cpu.rs).        *)
(*                                                                         *)
(* Several specifications share the variables below.  Each one drives one  *)
(* component through its public operations and leaves the variables of the *)
(* other components at their constructed values:                           *)
(*   SpecStack     Stack::push / Stack::pop called in any order            *)
(*   SpecTimer     DelayTimer::write / read against the decrement60hz      *)
(*                 threads a write spawns                                  *)
(*   SpecTimerFair SpecTimer with the scheduler's fairness                 *)
(*   SpecKeyboard  wait_for_any_key_press against the per-tick set_key of  *)
(*                 update_keyboard_keys_system                             *)
(*   Spec          CPU::clock running a loaded ROM                         *)
(***************************************************************************)
EXTENDS Integers, Sequences, FiniteSets, TLC

VARIABLES
    \* ---- CPU (src/src/cpu.rs:38-53)
    program_counter,  \* u16
    ram,              \* RAM.memory: [0..4095 -> u8]
    v,                \* V.v: [0..15 -> u8]
    i,                \* I.i: u16
    stack,            \* Stack.stack: [0..15 -> u16]
    stack_pointer,    \* Stack.stack_pointer: u8
    screen,           \* Screen.screen: [0..2047 -> u8]
    is_paused,        \* CPU.is_paused
    cpu_status,       \* where the clock() thread is: "running", "waiting"
                      \* (blocked inside wait_for_key), "panicked"
    panic_msg,        \* which expect/unwrap/panic!/todo! ended the thread
    wait_x,           \* the x of the FX0A whose frame is blocked
    \* ---- Keyboard (src/src/keyboard.rs:54-58)
    pressed_key,      \* Mutex<Option<u8>>: <<>> is None, <<k>> is Some(k)
    kb_waiter,        \* the thread inside wait_for_any_key_press: "none",
                      \* "cv_wait" (parked on the Condvar), "woken"
                      \* (notified, has not re-acquired the mutex yet)
    \* ---- Timers (src/src/timer.rs)
    timer_value,      \* [TimerNames -> u8], the Arc<Mutex<u8>> contents
    timer_lock,       \* [TimerNames -> holder], 0 when the mutex is free
    decayers,         \* [TimerNames -> [1..n -> pc]]: the spawned
                      \* decrement60hz threads, in spawn order
    \* ---- observers (history variables, read only by the properties)
    st_obs,           \* the last Stack call, its result, and the abstract stack
    kb_obs,           \* the last wait, and the presses delivered during it
    tm_obs,           \* the timer calls made so far
    cpu_obs,          \* the last fetched opcode and its address
    mem_obs           \* the last call on a RAM alone and its result

cpu_vars == <<program_counter, ram, v, i, stack, stack_pointer, screen,
              is_paused, cpu_status, panic_msg, wait_x>>
kb_vars == <<pressed_key, kb_waiter>>
tm_vars == <<timer_value, timer_lock, decayers>>
obs_vars == <<st_obs, kb_obs, tm_obs, cpu_obs, mem_obs>>
vars == <<cpu_vars, kb_vars, tm_vars, obs_vars>>

---------------------------------------------------------------------------
(* Machine integers *)

U8 == 256
U16 == 65536

RECURSIVE BitAnd(_, _)
BitAnd(a, b) ==
    IF a = 0 \/ b = 0 THEN 0
    ELSE (a % 2) * (b % 2) + 2 * BitAnd(a \div 2, b \div 2)

RECURSIVE BitOr(_, _)
BitOr(a, b) ==
    IF a = 0 THEN b
    ELSE IF b = 0 THEN a
    ELSE (IF a % 2 = 1 \/ b % 2 = 1 THEN 1 ELSE 0) + 2 * BitOr(a \div 2, b \div 2)

RECURSIVE BitXor(_, _)
BitXor(a, b) ==
    IF a = 0 THEN b
    ELSE IF b = 0 THEN a
    ELSE ((a + b) % 2) + 2 * BitXor(a \div 2, b \div 2)

---------------------------------------------------------------------------
(* Call stack: src/src/ram.rs *)

StackLen == 16
TimerNames == {"delay", "sound"}
NoValue == -1
None == <<>>
Some(k) == <<k>>

Stack_new == [stack_pointer |-> 0, stack |-> [k \in 0 .. StackLen - 1 |-> 0]]

\* A guard that admits a 16th entry (self.stack.len() instead of len() - 1).
PushOverflow_AtLen(sp) == sp >= StackLen

\* ram.rs:79  if self.stack_pointer as usize >= self.stack.len() - 1
PushOverflow(sp) == sp >= StackLen - 1

\* ram.rs:78-90
Stack_push(st, data) ==
    IF PushOverflow(st.stack_pointer)
    THEN [st |-> st, res |-> "StackOverflow"]
    ELSE IF st.stack_pointer \notin DOMAIN st.stack
    THEN [st |-> st, res |-> "OutOfBounds"]
    ELSE [st |-> [stack_pointer |-> st.stack_pointer + 1,
                  stack |-> [st.stack EXCEPT ![st.stack_pointer] = data]],
          res |-> "Ok"]

\* ram.rs:93-103.  The pointer is decremented before the slot is read, and the
\* slot read is the one at the decremented pointer + 1.
Stack_pop(st) ==
    IF st.stack_pointer = 0
    THEN [st |-> st, res |-> "StackUnderflow", val |-> 0]
    ELSE LET sp == st.stack_pointer - 1
             st2 == [st EXCEPT !.stack_pointer = sp]
         IN  IF sp + 1 \in DOMAIN st.stack
             THEN [st |-> st2, res |-> "Ok", val |-> st.stack[sp + 1]]
             ELSE [st |-> st2, res |-> "DoesNotExist", val |-> 0]

StackState == [stack_pointer |-> stack_pointer, stack |-> stack]

---------------------------------------------------------------------------
(* Memory and registers: src/src/ram.rs, src/src/registers.rs,              *)
(* src/src/screen.rs                                                        *)

RamLen == 4096
VLen == 16
ScreenLen == 2048

\* cpu.rs:19-36
SPRITES ==
    << \hF0, \h90, \h90, \h90, \hF0,  \h20, \h60, \h20, \h20, \h70,
       \hF0, \h10, \hF0, \h80, \hF0,  \hF0, \h10, \hF0, \h10, \hF0,
       \h90, \h90, \hF0, \h10, \h10,  \hF0, \h80, \hF0, \h10, \hF0,
       \hF0, \h80, \hF0, \h90, \hF0,  \hF0, \h10, \h20, \h40, \h40,
       \hF0, \h90, \hF0, \h90, \hF0,  \hF0, \h90, \hF0, \h10, \hF0,
       \hF0, \h90, \hF0, \h90, \h90,  \hE0, \h90, \hE0, \h90, \hE0,
       \hF0, \h80, \h80, \h80, \hF0,  \hE0, \h90, \h90, \h90, \hE0,
       \hF0, \h80, \hF0, \h80, \hF0,  \hF0, \h80, \hF0, \h80, \h80 >>

\* ram.rs:8-12
RAM_new == [a \in 0 .. RamLen - 1 |-> 0]

\* A read that wraps the address into the array instead of refusing it.
RAM_read_Wrapping(mem, address) ==
    [res |-> "Ok", val |-> mem[address % RamLen]]

\* ram.rs:19-24
RAM_read(mem, address) ==
    IF address < RamLen
    THEN [res |-> "Ok", val |-> mem[address]]
    ELSE [res |-> "OutOfBounds", val |-> 0]

\* ram.rs:26-36: the end is start + end_offset in u16; a sum that reaches the
\* length of the memory is refused.  The slice returned is
\* memory[start .. start + end_offset), end_offset bytes.
RAM_read_range(mem, start_address, end_offset) ==
    IF start_address + end_offset >= U16
    THEN [res |-> "InvalidRange", val |-> <<>>]
    ELSE IF start_address + end_offset >= RamLen
    THEN [res |-> "OutOfBounds", val |-> <<>>]
    ELSE [res |-> "Ok",
          val |-> [k \in 1 .. end_offset |-> mem[start_address + k - 1]]]

\* ram.rs:43-50
RAM_write(mem, address, data) ==
    IF address < RamLen
    THEN [res |-> "Ok", mem |-> [mem EXCEPT ![address] = data]]
    ELSE [res |-> "OutOfBounds", mem |-> mem]

\* ram.rs:52-61: data.len() is cast to u16 (truncated) before the checked
\* add; copy_from_slice panics when the two slices differ in length.
RAM_write_buf(mem, start_address, data) ==
    LET len16 == Len(data) % U16
        end_address == start_address + len16
    IN  IF end_address >= U16 \/ end_address > RamLen
        THEN [res |-> "OutOfBounds", mem |-> mem]
        ELSE IF end_address - start_address # Len(data)
        THEN [res |-> "panic", mem |-> mem]
        ELSE [res |-> "Ok",
              mem |-> [a \in DOMAIN mem |->
                          IF a >= start_address /\ a < end_address
                          THEN data[a - start_address + 1] ELSE mem[a]]]

\* registers.rs:7-11
V_new == [r \in 0 .. VLen - 1 |-> 0]

\* registers.rs:24-34: as RAM::read_range, in u8 over the 16 registers; the
\* slice returned is v[start .. start + end_offset), end_offset registers.
V_read_range(regs, start_address, end_offset) ==
    IF start_address + end_offset >= U8
    THEN [res |-> "InvalidRange", val |-> <<>>]
    ELSE IF start_address + end_offset >= VLen
    THEN [res |-> "OutOfBounds", val |-> <<>>]
    ELSE [res |-> "Ok",
          val |-> [k \in 1 .. end_offset |-> regs[start_address + k - 1]]]

\* registers.rs:50-58: the end is not compared with the register count; the
\* slice expression panics past it.
V_write_buf(regs, start_address, data) ==
    LET len8 == Len(data) % U8
        end_address == start_address + len8
    IN  IF end_address >= U8
        THEN [res |-> "OutOfBounds", regs |-> regs]
        ELSE IF end_address > VLen \/ end_address - start_address # Len(data)
        THEN [res |-> "panic", regs |-> regs]
        ELSE [res |-> "Ok",
              regs |-> [r \in DOMAIN regs |->
                           IF r >= start_address /\ r < end_address
                           THEN data[r - start_address + 1] ELSE regs[r]]]

\* screen.rs:12-20
Screen_new == [p \in 0 .. ScreenLen - 1 |-> 0]

---------------------------------------------------------------------------
(* Timers: src/src/timer.rs.  SoundTimer (7-34) and DelayTimer (36-64) are  *)
(* the same code over their own Arc<Mutex<u8>>; t names the timer.          *)

\* A mutex that excludes nobody.
MutexFree_Always(t) == TRUE

\* value.lock() returns once no other thread holds the guard.
MutexFree(t) == timer_lock[t] = 0

\* A loop that stops one tick early.
DecayContinues_AboveOne(val) == val > 1

\* timer.rs:75  if *value_lock > 0
DecayContinues(val) == val > 0

\* timer.rs:23 / 53  if *value_lock > 0 { thread::spawn(..) }
SpawnsDecayer(val) == val > 0

\* The decrement60hz threads of timer t that have not returned.
ActiveDecayers(t) == {n \in DOMAIN decayers[t] : decayers[t][n] # "done"}

\* timer.rs:47-58 (17-28): lock, store, spawn a decrement60hz thread when the
\* stored value is non-zero; the guard is dropped when write returns.  The
\* whole body runs under the guard, so it is one step of the caller.
Timer_write(t, val) ==
    /\ MutexFree(t)
    /\ timer_value' = [timer_value EXCEPT ![t] = val]
    /\ decayers' = [decayers EXCEPT ![t] =
                       IF SpawnsDecayer(val) THEN Append(@, "top") ELSE @]
    /\ UNCHANGED timer_lock

\* timer.rs:60-63 (30-33): the value read under the guard.
Timer_read(t) == timer_value[t]

\* timer.rs:70-79: a decayer takes the guard and tests the value; at 0 it
\* breaks out of the loop (the guard is dropped, the thread returns).
DecayerLockAndTest(t, n) ==
    /\ n \in DOMAIN decayers[t]
    /\ decayers[t][n] = "top"
    /\ MutexFree(t)
    /\ IF DecayContinues(timer_value[t])
       THEN /\ timer_lock' = [timer_lock EXCEPT ![t] = n]
            /\ decayers' = [decayers EXCEPT ![t][n] = "dec"]
       ELSE /\ timer_lock' = timer_lock
            /\ decayers' = [decayers EXCEPT ![t][n] = "done"]
    /\ UNCHANGED timer_value

\* timer.rs:76, 80: *value_lock -= 1 on the u8, then the block ends and the
\* guard is dropped.
DecayerDecrement(t, n) ==
    /\ n \in DOMAIN decayers[t]
    /\ decayers[t][n] = "dec"
    /\ timer_value' = [timer_value EXCEPT ![t] = (@ - 1) % U8]
    /\ timer_lock' = [timer_lock EXCEPT ![t] = 0]
    /\ decayers' = [decayers EXCEPT ![t][n] = "sleep"]

\* timer.rs:82-84: the sleep for the rest of the 1/60 s ends.
DecayerWake(t, n) ==
    /\ n \in DOMAIN decayers[t]
    /\ decayers[t][n] = "sleep"
    /\ decayers' = [decayers EXCEPT ![t][n] = "top"]
    /\ UNCHANGED <<timer_value, timer_lock>>

\* timer.rs:66-86: one step of the n-th decrement60hz thread of timer t.
Decayer(t, n) ==
    DecayerLockAndTest(t, n) \/ DecayerDecrement(t, n) \/ DecayerWake(t, n)

---------------------------------------------------------------------------
(* Keyboard: src/src/keyboard.rs *)

\* keyboard.rs:30-52.  KeyCode is bevy's enum; every variant the match does
\* not name maps to None.
get_key_from_keycode(keycode) ==
    CASE keycode = "Digit1" -> Some(1)
      [] keycode = "Digit2" -> Some(2)
      [] keycode = "Digit3" -> Some(3)
      [] keycode = "Digit4" -> Some(12)
      [] keycode = "KeyQ" -> Some(4)
      [] keycode = "KeyW" -> Some(5)
      [] keycode = "KeyE" -> Some(6)
      [] keycode = "KeyR" -> Some(13)
      [] keycode = "KeyA" -> Some(7)
      [] keycode = "KeyS" -> Some(8)
      [] keycode = "KeyD" -> Some(9)
      [] keycode = "KeyF" -> Some(14)
      [] keycode = "KeyZ" -> Some(10)
      [] keycode = "KeyX" -> Some(0)
      [] keycode = "KeyC" -> Some(11)
      [] keycode = "KeyV" -> Some(15)
      [] OTHER -> None

\* keyboard.rs:15-28: the argument of the one set_key call a tick makes, for
\* the just-pressed key codes in the order the iterator yields them: the first
\* that maps to a key, None when none does.
RECURSIVE update_keyboard_keys_system(_)
update_keyboard_keys_system(just_pressed) ==
    IF just_pressed = <<>> THEN None
    ELSE IF get_key_from_keycode(Head(just_pressed)) # None
    THEN get_key_from_keycode(Head(just_pressed))
    ELSE update_keyboard_keys_system(Tail(just_pressed))

\* keyboard.rs:67-74: under the mutex, store the key and notify_all: a thread
\* parked on the Condvar becomes runnable (it still has to re-acquire the
\* mutex, which set_key holds until it returns).
Keyboard_set_key(key) ==
    /\ pressed_key' = key
    /\ kb_waiter' = IF kb_waiter = "cv_wait" THEN "woken" ELSE kb_waiter

\* keyboard.rs:76-85, for the Option the mutex holds.
Keyboard_is_key_pressed(held, key) ==
    IF held # None THEN held[1] = key ELSE FALSE

\* keyboard.rs:92  while pressed_key_lock.is_none()
WaitContinues == pressed_key = None

\* keyboard.rs:88-97: a caller takes the mutex and tests the key; on None it
\* parks on the Condvar, which releases the mutex.  Otherwise it returns
\* pressed_key_lock.expect(..) (keyboard.rs:100).
Keyboard_wait_enter ==
    /\ kb_waiter = "none"
    /\ kb_waiter' = IF WaitContinues THEN "cv_wait" ELSE "none"
    /\ UNCHANGED pressed_key

\* keyboard.rs:93-97: Condvar::wait returns with the mutex re-acquired and the
\* loop tests the key again.
Keyboard_wait_wake ==
    /\ kb_waiter = "woken"
    /\ kb_waiter' = IF WaitContinues THEN "cv_wait" ELSE "none"
    /\ UNCHANGED pressed_key

\* Condvar::wait may also return without a notification.
Keyboard_spurious_wake ==
    /\ kb_waiter = "cv_wait"
    /\ kb_waiter' = "woken"
    /\ UNCHANGED pressed_key

\* The observer of a wait: the first press a set_key delivered while the
\* caller was in the wait with no key stored, and the key the wait returned.
KbObsEnter ==
    [calls |-> kb_obs.calls + 1, arrived |-> None,
     result |-> IF WaitContinues THEN None ELSE pressed_key]
KbObsSetKey(key) ==
    IF kb_waiter # "none" /\ pressed_key = None /\ key # None
          /\ kb_obs.arrived = None
    THEN [kb_obs EXCEPT !.arrived = key]
    ELSE kb_obs
KbObsWake ==
    IF WaitContinues THEN kb_obs ELSE [kb_obs EXCEPT !.result = pressed_key]

---------------------------------------------------------------------------
(* Execution engine: src/src/cpu.rs *)

\* The engine's own state as one value:
\*   [pc, ram, v, i, st (the Stack), screen, panic ("" while running)]
\* and what an instruction asks of the shared objects:
\*   <<"none">>, <<"delay", b>>, <<"sound", b>>  (timer write), <<"wait", x>>.

\* An advance by one byte instead of one instruction.
increment_program_counter_ByOne(pc) == pc + 1

\* cpu.rs:566-569
increment_program_counter(pc) == pc + 2

\* A fetch that wraps the two addresses into the memory.
Fetch_Wrapping(mem, pc) ==
    Some(mem[pc % RamLen] * 256 + mem[(pc + 1) % RamLen])

\* cpu.rs:90-91: the opcode at pc, big endian; None when a read is out of
\* bounds (the unwrap panics).
Fetch(mem, pc) ==
    LET hi == RAM_read(mem, pc)
        lo == RAM_read(mem, pc + 1)
    IN  IF hi.res = "Ok" /\ lo.res = "Ok"
        THEN Some(hi.val * 256 + lo.val)
        ELSE None

OpX(opcode) == (opcode \div 256) % 16
OpY(opcode) == (opcode \div 16) % 16
OpNNN(opcode) == opcode % 4096
OpKK(opcode) == opcode % 256

Done(c) == [c |-> c, eff |-> <<"none">>]
Panic(c, msg) == [c |-> [c EXCEPT !.panic = msg], eff |-> <<"none">>]
SkipIf(c, cond) ==
    Done(IF cond THEN [c EXCEPT !.pc = increment_program_counter(c.pc)] ELSE c)

\* An addition that stops at 255 instead of wrapping.
wrapping_add_Saturating(a, b) == IF a + b > 255 THEN 255 ELSE a + b

\* u8::wrapping_add, u8::wrapping_sub (cpu.rs:186, 236, 279, 322)
wrapping_add(a, b) == (a + b) % U8
wrapping_sub(a, b) == (a - b) % U8

\* A carry that is never raised.
AddCarry_Never(vx, vy) == 0

\* cpu.rs:238-242
AddCarry(vx, vy) == IF vx + vy > 255 THEN 1 ELSE 0

\* A flag that equal operands do not raise.
SubNoBorrow_Strict(vx, vy) == IF vx > vy THEN 1 ELSE 0

\* cpu.rs:266
SubNoBorrow(vx, vy) == IF vx >= vy THEN 1 ELSE 0

\* cpu.rs:309
ReverseSubFlag(vx, vy) == IF vy > vx THEN 1 ELSE 0

\* The bit shifted in at the top instead of the bit shifted out.
ShiftRightFlag_Zero(vx) == 0

\* cpu.rs:291
ShiftRightFlag(vx) == BitAnd(vx, 1)

\* cpu.rs:333
ShiftLeftFlag(vx) == BitAnd(vx, 128)

\* cpu.rs:192-345: the 8XY_ arm.  The flag is written to V(0xF) before the
\* result is written to V(x).
ExecAlu(c, opcode) ==
    LET x == OpX(opcode)
        y == OpY(opcode)
        vx == c.v[x]
        vy == c.v[y]
        sub == opcode % 16
        Flagged(flag, result) ==
            Done([c EXCEPT !.v = [[c.v EXCEPT ![15] = flag] EXCEPT ![x] = result]])
    IN  CASE sub = 0 -> Done([c EXCEPT !.v[x] = vy])
          [] sub = 1 -> Done([c EXCEPT !.v[x] = BitOr(vx, vy)])
          [] sub = 2 -> Done([c EXCEPT !.v[x] = BitAnd(vx, vy)])
          [] sub = 3 -> Done([c EXCEPT !.v[x] = BitXor(vx, vy)])
          [] sub = 4 -> Flagged(AddCarry(vx, vy), wrapping_add(vx, vy))
          [] sub = 5 -> Flagged(SubNoBorrow(vx, vy), wrapping_sub(vx, vy))
          [] sub = 6 ->
                \* cpu.rs:290-304: V(x) is read again after V(0xF) is written
                LET v1 == [c.v EXCEPT ![15] = ShiftRightFlag(vx)]
                IN  Done([c EXCEPT !.v = [v1 EXCEPT ![x] = v1[x] \div 2]])
          [] sub = 7 -> Flagged(ReverseSubFlag(vx, vy), wrapping_sub(vy, vx))
          [] sub = 14 -> Flagged(ShiftLeftFlag(vx), (vx * 2) % U8)
          [] OTHER -> Panic(c, "Invalid instruction received!")

\* The digits in the order ones, tens, hundreds.
BcdDigits_OnesFirst(vx) == <<vx % 10, (vx % 100) \div 10, vx \div 100>>

\* cpu.rs:485, 494-495, 504: hundreds, tens, ones
BcdDigits(vx) == <<vx \div 100, (vx % 100) \div 10, vx % 10>>

\* cpu.rs:477-507: three writes in turn, each of which may panic after the
\* ones before it are done.
ExecBcd(c, x) ==
    LET vx == c.v[x]
        w1 == RAM_write(c.ram, c.i, BcdDigits(vx)[1])
        w2 == RAM_write(w1.mem, c.i + 1, BcdDigits(vx)[2])
        w3 == RAM_write(w2.mem, c.i + 2, BcdDigits(vx)[3])
    IN  IF w1.res # "Ok" THEN Panic(c, "Could not write RAM")
        ELSE IF c.i + 1 >= U16 THEN Panic([c EXCEPT !.ram = w1.mem], "Could not add 1 to I")
        ELSE IF w2.res # "Ok" THEN Panic([c EXCEPT !.ram = w1.mem], "Could not write RAM")
        ELSE IF c.i + 2 >= U16 THEN Panic([c EXCEPT !.ram = w2.mem], "Could not add 2 to I")
        ELSE IF w3.res # "Ok" THEN Panic([c EXCEPT !.ram = w2.mem], "Could not write RAM")
        ELSE Done([c EXCEPT !.ram = w3.mem])

\* cpu.rs:417-544: the FX__ arm.  env.delay is what DelayTimer::read returns.
ExecF(c, opcode, env) ==
    LET x == OpX(opcode)
        kk == OpKK(opcode)
    IN  CASE kk = \h07 -> Done([c EXCEPT !.v[x] = env.delay])
          [] kk = \h0F -> Done([c EXCEPT !.v[x] = env.delay])
          [] kk = \h0A -> [c |-> c, eff |-> <<"wait", x>>]
          [] kk = \h15 -> [c |-> c, eff |-> <<"delay", c.v[x]>>]
          [] kk = \h18 -> [c |-> c, eff |-> <<"sound", c.v[x]>>]
          [] kk = \h1E -> Done([c EXCEPT !.i = (c.i + c.v[x]) % U16])
          [] kk = \h29 -> Done([c EXCEPT !.i = c.v[x] * 5])
          [] kk = \h33 -> ExecBcd(c, x)
          [] kk = \h55 ->
                LET regs == V_read_range(c.v, 0, x)
                    w == RAM_write_buf(c.ram, c.i, regs.val)
                IN  IF regs.res # "Ok" THEN Panic(c, "Could not read range V")
                    ELSE IF w.res # "Ok" THEN Panic(c, "Could not write V in RAM")
                    ELSE Done([c EXCEPT !.ram = w.mem])
          [] kk = \h65 ->
                LET bytes == RAM_read_range(c.ram, c.i, x)
                    w == V_write_buf(c.v, 0, bytes.val)
                IN  IF bytes.res # "Ok" THEN Panic(c, "Could not read range from RAM")
                    ELSE IF w.res # "Ok" THEN Panic(c, "Could not write RAM to V")
                    ELSE Done([c EXCEPT !.v = w.regs])
          [] OTHER -> Panic(c, "Invalid instruction received!")

\* cpu.rs:100-547.  c0 is the engine before the instruction, env what the
\* instruction reads of the shared objects and of the random generator:
\* [delay, rand, key].
execute_instruction(c0, opcode, env) ==
    LET c == [c0 EXCEPT !.pc = increment_program_counter(c0.pc)]
        x == OpX(opcode)
        y == OpY(opcode)
        nnn == OpNNN(opcode)
        kk == OpKK(opcode)
        top == opcode \div 4096
    IN  CASE top = 0 ->
                IF opcode = \h00E0 THEN Done([c EXCEPT !.screen = Screen_new])
                ELSE IF opcode = \h00EE
                THEN LET r == Stack_pop(c.st)
                     IN  IF r.res = "Ok"
                         THEN Done([c EXCEPT !.st = r.st, !.pc = r.val])
                         ELSE Panic([c EXCEPT !.st = r.st], "Could not pop off of stack!")
                ELSE Done([c EXCEPT !.pc = nnn])
          [] top = 1 -> Done([c EXCEPT !.pc = nnn])
          [] top = 2 ->
                LET r == Stack_push(c.st, c.pc)
                IN  IF r.res = "Ok"
                    THEN Done([c EXCEPT !.st = r.st, !.pc = nnn])
                    ELSE Panic(c, "Could not push ProgramCounter on to the stack!")
          [] top = 3 -> SkipIf(c, c.v[x] = kk)
          [] top = 4 -> SkipIf(c, c.v[x] # kk)
          [] top = 5 -> SkipIf(c, c.v[x] = c.v[y])
          [] top = 6 -> Done([c EXCEPT !.v[x] = kk])
          [] top = 7 -> Done([c EXCEPT !.v[x] = wrapping_add(c.v[x], kk)])
          [] top = 8 -> ExecAlu(c, opcode)
          [] top = 9 -> SkipIf(c, c.v[x] # c.v[y])
          [] top = 10 -> Done([c EXCEPT !.i = nnn])
          [] top = 11 -> Done([c EXCEPT !.pc = nnn + c.v[0]])
          [] top = 12 -> Done([c EXCEPT !.v[x] = BitAnd(env.rand, kk)])
          [] top = 13 -> Panic(c, "not yet implemented: Draw sprite onto screen.")
          [] top = 14 ->
                IF kk = \h9E
                THEN SkipIf(c, Keyboard_is_key_pressed(env.key, c.v[x]))
                ELSE IF kk = \hA1
                THEN SkipIf(c, ~Keyboard_is_key_pressed(env.key, c.v[x]))
                ELSE Panic(c, "Invalid instruction received!")
          [] OTHER -> ExecF(c, opcode, env)

---------------------------------------------------------------------------
(* Constructed values of every component *)

\* A specification of one component alone constructs no CPU: the engine's
\* fields other than the component under test hold nothing.
CpuAbsent ==
    /\ program_counter = 0
    /\ ram = <<>>
    /\ v = <<>>
    /\ i = 0
    /\ screen = <<>>
    /\ is_paused = FALSE
    /\ cpu_status = "absent"
    /\ panic_msg = ""
    /\ wait_x = 0

KbInit ==
    /\ pressed_key = None
    /\ kb_waiter = "none"

TmInit ==
    /\ timer_value = [t \in TimerNames |-> 0]
    /\ timer_lock = [t \in TimerNames |-> 0]
    /\ decayers = [t \in TimerNames |-> <<>>]

ObsInit ==
    /\ st_obs = [op |-> "none", res |-> "none", val |-> 0, data |-> 0,
                 before |-> Stack_new, model |-> <<>>, model_before |-> <<>>,
                 pushes |-> 0, pops |-> 0]
    /\ kb_obs = [calls |-> 0, arrived |-> None, result |-> None]
    /\ tm_obs = [writes |-> 0, target |-> "none",
                 last_write |-> [t \in TimerNames |-> NoValue],
                 last_read |-> [t \in TimerNames |-> NoValue],
                 prev_read |-> [t \in TimerNames |-> NoValue]]
    /\ cpu_obs = [event |-> "none", op |-> NoValue, pc |-> NoValue,
                  calls |-> <<>>, ret |-> NoValue]
    /\ mem_obs = [op |-> "none", address |-> 0, data |-> 0, res |-> "none",
                  val |-> 0, before |-> <<>>, written |-> <<>>, calls |-> 0]

---------------------------------------------------------------------------
(* SpecStack: any sequence of push and pop calls on a new Stack *)

\* Return addresses a caller pushes (program counters).
StackData == {514, 772}
\* How many pops may succeed in one run (a pop of an empty stack is always
\* allowed).
MaxPops == 2

StackPushCall ==
    \E data \in StackData :
        LET r == Stack_push(StackState, data)
        IN  /\ stack' = r.st.stack
            /\ stack_pointer' = r.st.stack_pointer
            /\ st_obs' = [op |-> "push", res |-> r.res, val |-> 0, data |-> data,
                          before |-> StackState,
                          model |-> IF r.res = "Ok" THEN Append(st_obs.model, data)
                                    ELSE st_obs.model,
                          model_before |-> st_obs.model,
                          pushes |-> st_obs.pushes + (IF r.res = "Ok" THEN 1 ELSE 0),
                          pops |-> st_obs.pops]
            /\ UNCHANGED <<program_counter, ram, v, i, screen, is_paused,
                           cpu_status, panic_msg, wait_x>>
            /\ UNCHANGED <<kb_vars, tm_vars, kb_obs, tm_obs, cpu_obs, mem_obs>>

StackPopCall ==
    /\ st_obs.pops < MaxPops \/ stack_pointer = 0
    /\ LET r == Stack_pop(StackState)
       IN  /\ stack' = r.st.stack
           /\ stack_pointer' = r.st.stack_pointer
           /\ st_obs' = [op |-> "pop", res |-> r.res, val |-> r.val, data |-> 0,
                         before |-> StackState,
                         model |-> IF r.res = "Ok" /\ st_obs.model # <<>>
                                   THEN SubSeq(st_obs.model, 1, Len(st_obs.model) - 1)
                                   ELSE st_obs.model,
                         model_before |-> st_obs.model,
                         pushes |-> st_obs.pushes,
                         pops |-> st_obs.pops + (IF r.res = "Ok" THEN 1 ELSE 0)]
    /\ UNCHANGED <<program_counter, ram, v, i, screen, is_paused,
                   cpu_status, panic_msg, wait_x>>
    /\ UNCHANGED <<kb_vars, tm_vars, kb_obs, tm_obs, cpu_obs, mem_obs>>

InitStack ==
    /\ CpuAbsent
    /\ stack = Stack_new.stack
    /\ stack_pointer = Stack_new.stack_pointer
    /\ KbInit /\ TmInit /\ ObsInit
NextStack == StackPushCall \/ StackPopCall
SpecStack == InitStack /\ [][NextStack]_vars

\* C8: starting from an empty stack 16 pushes succeed and the 17th fails with
\* StackOverflow: a push succeeds exactly when the stack holds fewer than 16
\* entries, and a failing push leaves the contents and the pointer unchanged.
C8_PushSucceedsBelowCapacity ==
    st_obs.op = "push" =>
        /\ (st_obs.res = "Ok") <=> (Len(st_obs.model_before) < 16)
        /\ st_obs.res # "Ok" =>
              /\ st_obs.res = "StackOverflow"
              /\ StackState = st_obs.before

\* C9: a successful pop returns the value of the most recent push that has
\* not been popped yet.
C9_PopReturnsLastPush ==
    (st_obs.op = "pop" /\ st_obs.res = "Ok") =>
        /\ st_obs.model_before # <<>>
        /\ st_obs.val = st_obs.model_before[Len(st_obs.model_before)]

\* C10: the stack pointer stays in [0,16] and equals the successful pushes
\* minus the successful pops; pop fails with StackUnderflow exactly when the
\* pointer is 0, then leaves the stack unchanged, and never fails in any other
\* way on a non-empty stack.
C10_PointerCountsEntries ==
    /\ stack_pointer \in 0 .. 16
    /\ stack_pointer = st_obs.pushes - st_obs.pops
    /\ st_obs.op = "pop" =>
          /\ (st_obs.res = "StackUnderflow") <=> (st_obs.before.stack_pointer = 0)
          /\ st_obs.res = "StackUnderflow" => StackState = st_obs.before
          /\ st_obs.before.stack_pointer > 0 =>
                /\ st_obs.res = "Ok"
                /\ stack_pointer = st_obs.before.stack_pointer - 1

\* Pushes and pops have succeeded, and a pop of the emptied stack has failed.
C10_Witness ==
    /\ st_obs.op = "pop"
    /\ st_obs.res = "StackUnderflow"
    /\ st_obs.pushes = MaxPops
    /\ st_obs.pops = MaxPops

---------------------------------------------------------------------------
(* SpecTimer: a caller's write and read calls against the decayers *)

\* Values a caller writes.
TimerInputs == {0, 1, 2}
\* How many write calls a run makes, over both timers.
MaxWrites == 2

TimerWriteCall(t, val) ==
    /\ tm_obs.writes < MaxWrites
    /\ Timer_write(t, val)
    /\ tm_obs' = [writes |-> tm_obs.writes + 1, target |-> t,
                  last_write |-> [tm_obs.last_write EXCEPT ![t] = val],
                  last_read |-> [tm_obs.last_read EXCEPT ![t] = NoValue],
                  prev_read |-> [tm_obs.prev_read EXCEPT ![t] = NoValue]]
    /\ UNCHANGED <<cpu_vars, kb_vars, st_obs, kb_obs, cpu_obs, mem_obs>>

TimerReadCall(t) ==
    /\ MutexFree(t)
    /\ tm_obs' = [tm_obs EXCEPT !.last_read[t] = Timer_read(t),
                                !.prev_read[t] = tm_obs.last_read[t]]
    /\ UNCHANGED <<cpu_vars, kb_vars, tm_vars, st_obs, kb_obs, cpu_obs, mem_obs>>

DecayerStep(t, n) ==
    /\ Decayer(t, n)
    /\ UNCHANGED <<cpu_vars, kb_vars, obs_vars>>

InitTimer ==
    /\ CpuAbsent
    /\ stack = <<>>
    /\ stack_pointer = 0
    /\ KbInit /\ TmInit /\ ObsInit

NextTimer ==
    \/ \E t \in TimerNames, val \in TimerInputs : TimerWriteCall(t, val)
    \/ \E t \in TimerNames : TimerReadCall(t)
    \/ \E t \in TimerNames, n \in 1 .. MaxWrites : DecayerStep(t, n)

SpecTimer == InitTimer /\ [][NextTimer]_vars

\* Every spawned thread is scheduled again and again: a decayer that can take
\* a step eventually takes one.
TimerFairness ==
    \A t \in TimerNames, n \in 1 .. MaxWrites : WF_vars(DecayerStep(t, n))

SpecTimerFair == SpecTimer /\ TimerFairness

\* C5: after any sequence of timer writes at most one decay process is active
\* for a given timer at any time.
C5_AtMostOneDecayer ==
    \A t \in TimerNames : Cardinality(ActiveDecayers(t)) <= 1

\* A step of SpecTimer that is a write call.
IsTimerWrite == tm_obs'.writes = tm_obs.writes + 1

\* C6: under every interleaving of the decayers with read and write calls the
\* timer value stays in [0,255] and is never decremented at 0; between two
\* writes every change of the value is a decrement by exactly 1 of a value
\* > 0, so of two successive reads the later never observes the larger value.
C6_DecayOnlyDecrements ==
    /\ [](\A t \in TimerNames :
            /\ timer_value[t] \in 0 .. 255
            /\ tm_obs.prev_read[t] # NoValue =>
                  tm_obs.last_read[t] <= tm_obs.prev_read[t])
    /\ [][\A t \in TimerNames :
            (timer_value'[t] # timer_value[t] /\ ~IsTimerWrite) =>
                /\ timer_value[t] > 0
                /\ timer_value'[t] = timer_value[t] - 1]_vars

\* Two decayers run on one timer, and the second of two reads made since the
\* last write saw a smaller value than the first.
C6_Witness ==
    \E t \in TimerNames :
        /\ Cardinality(ActiveDecayers(t)) = 2
        /\ tm_obs.prev_read[t] # NoValue
        /\ tm_obs.last_read[t] < tm_obs.prev_read[t]

\* C7: a timer starts at 0 with no decay running; once written non-zero (and
\* every run makes finitely many writes) its value eventually reaches 0 and
\* its decay threads terminate; a write of a non-zero value, the first or a
\* later one, stores that value and starts a decay thread.
C7_TimerDecaysToZero ==
    /\ \A t \in TimerNames : timer_value[t] = 0 /\ ActiveDecayers(t) = {}
    /\ \A t \in TimerNames :
          (timer_value[t] > 0) ~> (timer_value[t] = 0 /\ ActiveDecayers(t) = {})
    /\ [][\A t \in TimerNames :
            (IsTimerWrite /\ tm_obs'.target = t
                /\ tm_obs'.last_write[t] > 0) =>
                /\ timer_value'[t] = tm_obs'.last_write[t]
                /\ timer_value'[t] > 0
                /\ Len(decayers'[t]) = Len(decayers[t]) + 1
                /\ decayers'[t][Len(decayers'[t])] = "top"]_vars

\* A timer was written non-zero twice and has decayed to 0, which a read has
\* seen, with both decay threads terminated.
C7_Witness ==
    \E t \in TimerNames :
        /\ tm_obs.writes = 2
        /\ Len(decayers[t]) = 2
        /\ timer_value[t] = 0
        /\ ActiveDecayers(t) = {}
        /\ tm_obs.last_read[t] = 0

---------------------------------------------------------------------------
(* SpecKeyboard: a caller of wait_for_any_key_press against the input system *)

\* Key codes the input system reports as just pressed ("Space" is not mapped).
KeyCodes == {"Digit1", "KeyX", "KeyV", "Space"}
\* How many keys are just pressed in one tick.
MaxJustPressed == 2
\* How many times the caller waits for a key.
MaxWaits == 2

JustPressed ==
    UNION {[1 .. n -> KeyCodes] : n \in 0 .. MaxJustPressed}

\* One FixedPreUpdate tick of the input system.
KbTick ==
    \E just_pressed \in JustPressed :
        LET key == update_keyboard_keys_system(just_pressed)
        IN  /\ Keyboard_set_key(key)
            /\ kb_obs' = KbObsSetKey(key)
            /\ UNCHANGED <<cpu_vars, tm_vars, st_obs, tm_obs, cpu_obs, mem_obs>>

KbWaitCall ==
    /\ kb_obs.calls < MaxWaits
    /\ Keyboard_wait_enter
    /\ kb_obs' = KbObsEnter
    /\ UNCHANGED <<cpu_vars, tm_vars, st_obs, tm_obs, cpu_obs, mem_obs>>

KbWaiterWake ==
    /\ Keyboard_wait_wake
    /\ kb_obs' = KbObsWake
    /\ UNCHANGED <<cpu_vars, tm_vars, st_obs, tm_obs, cpu_obs, mem_obs>>

KbSpuriousWake ==
    /\ Keyboard_spurious_wake
    /\ UNCHANGED <<cpu_vars, tm_vars, obs_vars>>

InitKeyboard ==
    /\ CpuAbsent
    /\ stack = <<>>
    /\ stack_pointer = 0
    /\ KbInit /\ TmInit /\ ObsInit

NextKeyboard == KbTick \/ KbWaitCall \/ KbWaiterWake \/ KbSpuriousWake
SpecKeyboard == InitKeyboard /\ [][NextKeyboard]_vars

\* C4: no missed key press.  Once a set_key has delivered a pressed key to a
\* parked waiter (a no-key to some-key transition), the waiter is on its way
\* to return that key or has returned it, whatever set_key calls follow: it
\* is never parked again and never returns another key.
C4_NoMissedKeyPress ==
    kb_obs.arrived # None =>
        \/ kb_waiter = "woken" /\ kb_obs.result = None
        \/ kb_waiter = "none" /\ kb_obs.result = kb_obs.arrived

---------------------------------------------------------------------------
(* Spec: CPU::new, load_rom and clock (src/src/main.rs:29-32) running a ROM, *)
(* with the decayers its timer writes spawn and the input system's ticks.    *)
(* The input system is taken to call set_key on the keyboard the engine      *)
(* waits on.                                                                 *)

\* Big-endian bytes of a sequence of 16-bit words.
Bytes(words) ==
    [k \in 1 .. 2 * Len(words) |->
        IF k % 2 = 1 THEN words[(k + 1) \div 2] \div 256 ELSE words[k \div 2] % 256]

\* Programs: flow of control, subroutines, keys, timers, memory transfers.
RomFlow ==
    << \h6A05, \h7A0B, \h3A10, \h00E0, \h4A10, \h5AB0, \h9AB0, \h0000,
       \h1216, \h0000, \h0000, \hA123, \hB21C, \h0000, \h121C >>
RomCalls ==
    << \h2206, \h6101, \h1204, \h220A, \h00EE, \h6201, \h00EE >>
RomCallTwice ==
    << \h2208, \h2208, \h6301, \h1206, \h00EE >>
RomRecursion == << \h2200 >>
RomReturnOnly == << \h00EE >>
RomKeys ==
    << \hF10A, \hE19E, \h6201, \hE1A1, \h6301, \hF20A, \h120C >>
RomTimers ==
    << \h6002, \hF015, \hF107, \h6301, \hF318, \hF20F, \h120C >>
RomMemory ==
    << \hA300, \h60FE, \h6107, \hF033, \hF155, \hF01E, \hF265, \hF029, \h1210 >>
RomEdge ==
    << \h60FF, \hAFFE, \hF033, \h0000 >>
RomJumpEnd == << \h60FF, \hBFFF >>
RomLastWord == << \h1FFE >>
RomLastByte == << \h1FFF >>
RomRunOff == << \h6061, \hAFFE, \hF155, \h1FFE >>

\* Single instructions run after two register loads.
OpcodeSamples ==
    { \h00E0, \h00EE, \h0123, \h1208, \h2208, \h3005, \h4005, \h5010, \h5011,
      \h6A05, \h70FF, \h8010, \h8011, \h8012, \h8013, \h8014, \h8015, \h8016,
      \h8017, \h801E, \h8018, \h8F14, \h8F15, \h8F16, \h8F17, \h8F1E, \h9010,
      \h9011, \hA123, \hB210, \hC10F, \hD011, \hE09E, \hE0A1, \hE000, \hF007,
      \hF00F, \hF00A, \hF01E, \hF029, \hF033, \hF055, \hF155,
      \hF065, \hF165, \hF0FF }

\* One byte more than fits after 0x200.
RomTooLong == [k \in 1 .. 3585 |-> 0]

ROMS ==
    { Bytes(w) : w \in { RomFlow, RomCalls, RomCallTwice, RomRecursion,
                         RomReturnOnly, RomKeys, RomTimers, RomMemory,
                         RomEdge, RomJumpEnd, RomLastWord, RomLastByte,
                         RomRunOff } }
    \cup { Bytes(<<a, b, op>>) :
             a \in { \h6005, \h60FF }, b \in { \h6105, \h6101 },
             op \in OpcodeSamples }
    \cup { <<\h12>>, RomTooLong }

\* Bytes the random generator yields (cpu.rs:374).
RandBytes == { \h00, \h5A, \hFF }

\* cpu.rs:55-79
CPU_new ==
    [pc |-> \h200, ram |-> RAM_write_buf(RAM_new, 0, SPRITES).mem, v |-> V_new,
     i |-> 0, st |-> Stack_new, screen |-> Screen_new, panic |-> ""]

\* cpu.rs:81-84
load_rom(c, data) == RAM_write_buf(c.ram, \h200, data)

CpuState ==
    [pc |-> program_counter, ram |-> ram, v |-> v, i |-> i, st |-> StackState,
     screen |-> screen, panic |-> ""]

SetCpu(c) ==
    /\ program_counter' = c.pc
    /\ ram' = c.ram
    /\ v' = c.v
    /\ i' = c.i
    /\ stack' = c.st.stack
    /\ stack_pointer' = c.st.stack_pointer
    /\ screen' = c.screen
    /\ panic_msg' = c.panic

\* main.rs:29-31: a ROM that does not fit ends the process in expect.
Init ==
    /\ \E rom \in ROMS :
          LET loaded == load_rom(CPU_new, rom)
          IN  /\ ram = loaded.mem
              /\ cpu_status = IF loaded.res = "Ok" THEN "running" ELSE "panicked"
              /\ panic_msg = IF loaded.res = "Ok" THEN ""
                             ELSE "Could not load ROM into RAM!"
    /\ program_counter = CPU_new.pc
    /\ v = CPU_new.v
    /\ i = CPU_new.i
    /\ stack = CPU_new.st.stack
    /\ stack_pointer = CPU_new.st.stack_pointer
    /\ screen = CPU_new.screen
    /\ is_paused = FALSE
    /\ wait_x = 0
    /\ KbInit /\ TmInit /\ ObsInit

\* The observer of the engine: the opcode last fetched and its address, the
\* return addresses of the calls that have not returned, and the one the
\* last 00EE was due to return to.
CpuObsCycle(opcode, r) ==
    LET ok == r.c.panic = ""
        after == program_counter + 2
    IN  [event |-> "cycle", op |-> opcode, pc |-> program_counter,
         calls |-> IF ok /\ opcode \div 4096 = 2 THEN Append(cpu_obs.calls, after)
                   ELSE IF ok /\ opcode = \h00EE /\ cpu_obs.calls # <<>>
                   THEN SubSeq(cpu_obs.calls, 1, Len(cpu_obs.calls) - 1)
                   ELSE cpu_obs.calls,
         ret |-> IF ok /\ opcode = \h00EE /\ cpu_obs.calls # <<>>
                 THEN cpu_obs.calls[Len(cpu_obs.calls)] ELSE NoValue]

\* cpu.rs:86-98, 552-557: one cycle of the clock loop.  An instruction that
\* locks a timer runs once that mutex is free.
Cycle ==
    /\ cpu_status = "running"
    /\ ~is_paused
    /\ LET fetched == Fetch(ram, program_counter)
       IN  IF fetched = None
           THEN /\ cpu_status' = "panicked"
                /\ panic_msg' = "called Result::unwrap() on an Err value: OutOfBounds"
                /\ cpu_obs' = [cpu_obs EXCEPT !.event = "fetch_panic",
                                              !.op = NoValue,
                                              !.pc = program_counter]
                /\ UNCHANGED <<program_counter, ram, v, i, stack, stack_pointer,
                               screen, is_paused, wait_x>>
                /\ UNCHANGED <<kb_vars, tm_vars, st_obs, kb_obs, tm_obs, mem_obs>>
           ELSE \E rand \in (IF fetched[1] \div 4096 = 12 THEN RandBytes ELSE {0}) :
                LET opcode == fetched[1]
                    env == [delay |-> Timer_read("delay"), rand |-> rand,
                            key |-> pressed_key]
                    r == execute_instruction(CpuState, opcode, env)
                    kind == r.eff[1]
                IN  /\ (opcode \div 4096 = 15 /\ OpKK(opcode) \in {\h07, \h0F})
                          => MutexFree("delay")
                    /\ SetCpu(IF kind = "wait" /\ ~WaitContinues
                              THEN [r.c EXCEPT !.v[r.eff[2]] = pressed_key[1]]
                              ELSE r.c)
                    /\ cpu_obs' = CpuObsCycle(opcode, r)
                    /\ UNCHANGED <<st_obs, mem_obs>>
                    /\ IF kind = "wait"
                       THEN /\ kb_obs.calls < MaxWaits
                            /\ Keyboard_wait_enter
                            /\ kb_obs' = KbObsEnter
                            /\ is_paused' = WaitContinues
                            /\ cpu_status' = IF WaitContinues THEN "waiting"
                                             ELSE "running"
                            /\ wait_x' = r.eff[2]
                            /\ UNCHANGED <<tm_vars, tm_obs>>
                       ELSE IF kind \in TimerNames
                       THEN /\ tm_obs.writes < MaxWrites
                            /\ Timer_write(kind, r.eff[2])
                            /\ tm_obs' = [tm_obs EXCEPT
                                             !.writes = @ + 1, !.target = kind,
                                             !.last_write[kind] = r.eff[2]]
                            /\ cpu_status' = "running"
                            /\ UNCHANGED <<is_paused, wait_x, kb_vars, kb_obs>>
                       ELSE /\ cpu_status' = IF r.c.panic = "" THEN "running"
                                             ELSE "panicked"
                            /\ UNCHANGED <<is_paused, wait_x, kb_vars, kb_obs,
                                           tm_vars, tm_obs>>

\* cpu.rs:442-453: wait_for_key returns in the blocked FX0A; the key goes to
\* V(x) and the engine is no longer paused.
CpuWaitWake ==
    /\ cpu_status = "waiting"
    /\ Keyboard_wait_wake
    /\ kb_obs' = KbObsWake
    /\ IF WaitContinues
       THEN UNCHANGED <<cpu_vars, cpu_obs>>
       ELSE /\ v' = [v EXCEPT ![wait_x] = pressed_key[1]]
            /\ is_paused' = FALSE
            /\ cpu_status' = "running"
            /\ cpu_obs' = [cpu_obs EXCEPT !.event = "resume"]
            /\ UNCHANGED <<program_counter, ram, i, stack, stack_pointer,
                           screen, panic_msg, wait_x>>
    /\ UNCHANGED <<tm_vars, st_obs, tm_obs, mem_obs>>

Next ==
    \/ Cycle
    \/ CpuWaitWake
    \/ KbTick
    \/ KbSpuriousWake
    \/ \E t \in TimerNames, n \in 1 .. MaxWrites : DecayerStep(t, n)

Spec == Init /\ [][Next]_vars

\* A step of Cycle: the only action enabled on a running engine that changes
\* the engine or its observer.
IsCycleStep ==
    /\ cpu_status = "running"
    /\ ~is_paused
    /\ <<cpu_vars, cpu_obs>>' # <<cpu_vars, cpu_obs>>

\* Jumps, calls and returns: 0NNN and 00EE, 1NNN, 2NNN, BNNN.
IsControlFlow(op) ==
    \/ op \div 4096 \in {1, 2, 11}
    \/ op \div 4096 = 0 /\ op # \h00E0

\* A skip instruction whose condition holds in the current state.
IsTakenSkip(op) ==
    LET top == op \div 4096
        vx == v[(op \div 256) % 16]
        vy == v[(op \div 16) % 16]
        kk == op % 256
    IN  \/ top = 3 /\ vx = kk
        \/ top = 4 /\ vx # kk
        \/ top = 5 /\ vx = vy
        \/ top = 9 /\ vx # vy
        \/ top = 14 /\ kk = \h9E /\ pressed_key = <<vx>>
        \/ top = 14 /\ kk = \hA1 /\ pressed_key # <<vx>>

\* C1: every cycle of a non-paused engine whose two opcode bytes lie in
\* memory fetches memory[PC] * 256 + memory[PC + 1]; after an instruction
\* that is not a jump, call, return or taken skip the program counter is the
\* old one plus 2, and after 1NNN it is NNN.
C1_FetchAdvancesByTwo ==
    [][ (IsCycleStep /\ program_counter + 1 < RamLen) =>
            LET A == program_counter
                op == ram[A] * 256 + ram[A + 1]
            IN  /\ cpu_obs'.op = op
                /\ cpu_obs'.pc = A
                /\ (~IsControlFlow(op) /\ ~IsTakenSkip(op))
                      => program_counter' = A + 2
                /\ op \div 4096 = 1 => program_counter' = op % 4096 ]_vars

\* A 1NNN whose two bytes differ has run and the engine stands at NNN, away
\* from the address after the jump.
C1_Witness ==
    /\ cpu_obs.event = "cycle"
    /\ cpu_obs.op \div 4096 = 1
    /\ cpu_obs.op \div 256 # cpu_obs.op % 256
    /\ program_counter = cpu_obs.op % 4096
    /\ program_counter # cpu_obs.pc + 2
    /\ \E r \in 0 .. VLen - 1 : v[r] # 0

\* C2: after a 00EE that matches a call that has not yet returned, the
\* program counter is the address after that call (the call's address + 2).
C2_ReturnAfterCall ==
    (/\ cpu_obs.event = "cycle"
     /\ cpu_obs.op = \h00EE
     /\ cpu_obs.ret # NoValue
     /\ cpu_status = "running")
        => program_counter = cpu_obs.ret

\* C3: FX0A blocks the engine.  While it waits nothing of the engine changes
\* and no cycle runs; once a key press has arrived the engine is on its way
\* out of the wait; it leaves the wait with that key in V(x), nothing else
\* changed, not paused, at the instruction after the FX0A.
C3_WaitBlocksUntilKey ==
    /\ []((cpu_status = "waiting" /\ kb_obs.arrived # None) => kb_waiter = "woken")
    /\ [][ (cpu_status = "waiting" /\ cpu_status' = "waiting") =>
              UNCHANGED <<program_counter, ram, v, i, stack, stack_pointer,
                          cpu_obs>> ]_vars
    /\ [][ (cpu_status = "waiting" /\ cpu_status' # "waiting") =>
              /\ kb_obs.arrived # None
              /\ v' = [v EXCEPT ![wait_x] = kb_obs.arrived[1]]
              /\ UNCHANGED <<program_counter, ram, i, stack, stack_pointer>>
              /\ program_counter = cpu_obs.pc + 2
              /\ cpu_status' = "running"
              /\ ~is_paused' ]_vars

---------------------------------------------------------------------------
(* SpecRam: any sequence of read and write calls on a new RAM *)

\* u16 addresses on both sides of the end of the memory, and bytes.
RamAddrs == {0, 1, 4095, 4096, 4097, 65535}
RamBytes == {0, 1, 255}

\* Calls in one behaviour.
MaxRamCalls == 2

\* mem_obs records the call, its result, the memory before it, and the
\* address and byte of the call before it when that was a write.
RamWriteCall ==
    \E address \in RamAddrs, data \in RamBytes :
        LET r == RAM_write(ram, address, data)
        IN  /\ mem_obs.calls < MaxRamCalls
            /\ ram' = r.mem
            /\ mem_obs' = [op |-> "write", address |-> address, data |-> data,
                           res |-> r.res, val |-> 0, before |-> ram,
                           written |-> <<>>, calls |-> mem_obs.calls + 1]
            /\ UNCHANGED <<program_counter, v, i, stack, stack_pointer, screen,
                           is_paused, cpu_status, panic_msg, wait_x>>
            /\ UNCHANGED <<kb_vars, tm_vars, st_obs, kb_obs, tm_obs, cpu_obs>>

RamReadCall ==
    \E address \in RamAddrs :
        LET r == RAM_read(ram, address)
        IN  /\ mem_obs.calls < MaxRamCalls
            /\ mem_obs' = [op |-> "read", address |-> address, data |-> 0,
                           res |-> r.res, val |-> r.val, before |-> ram,
                           written |-> IF mem_obs.op = "write"
                                       THEN <<mem_obs.address, mem_obs.data>>
                                       ELSE <<>>,
                           calls |-> mem_obs.calls + 1]
            /\ UNCHANGED <<cpu_vars, kb_vars, tm_vars, st_obs, kb_obs, tm_obs,
                           cpu_obs>>

InitRam ==
    /\ ram = RAM_new
    /\ program_counter = 0
    /\ v = <<>>
    /\ i = 0
    /\ stack = <<>>
    /\ stack_pointer = 0
    /\ screen = <<>>
    /\ is_paused = FALSE
    /\ cpu_status = "absent"
    /\ panic_msg = ""
    /\ wait_x = 0
    /\ KbInit /\ TmInit /\ ObsInit

NextRam == RamWriteCall \/ RamReadCall
SpecRam == InitRam /\ [][NextRam]_vars

\* C11: a write to an address below 4096 succeeds, stores the byte and
\* leaves every other cell as it was; a read of an address below 4096
\* succeeds, changes nothing, and returns the byte that the call before it
\* wrote to that address; reads and writes at 4096 and above fail with
\* OutOfBounds and leave the memory as it was.
C11_WriteThenRead ==
    /\ DOMAIN ram = 0 .. RamLen - 1
    /\ (mem_obs.op = "write" /\ mem_obs.address < 4096) =>
          /\ mem_obs.res = "Ok"
          /\ ram[mem_obs.address] = mem_obs.data
          /\ \A a \in 0 .. 4095 :
                a # mem_obs.address => ram[a] = mem_obs.before[a]
    /\ (mem_obs.op = "read" /\ mem_obs.address < 4096) =>
          /\ mem_obs.res = "Ok"
          /\ ram = mem_obs.before
          /\ (mem_obs.written # <<>> /\ mem_obs.written[1] = mem_obs.address)
                => mem_obs.val = mem_obs.written[2]
    /\ (mem_obs.op # "none" /\ mem_obs.address >= 4096) =>
          /\ mem_obs.res = "OutOfBounds"
          /\ ram = mem_obs.before

\* The last cell was written with 255 and the read that followed returned it.
C11_Witness ==
    /\ mem_obs.op = "read"
    /\ mem_obs.address = 4095
    /\ mem_obs.written = <<4095, 255>>
    /\ mem_obs.res = "Ok"
    /\ mem_obs.val = 255

---------------------------------------------------------------------------
(* SpecAlu: one arithmetic instruction run by execute_instruction on an     *)
(* engine whose registers hold bytes loaded before it.  These instructions   *)
(* touch neither the memory nor the framebuffer, which hold nothing here.    *)

\* Registers and bytes the instruction finds, and the KK of 7XKK.
AluRegs == {0, 1, 10, 15}
AluBytes == {0, 1, 2, 5, 127, 128, 255}
AluKK == {1, 11, 255}

AluOpcodes ==
    { \h8000 + x * 256 + y * 16 + n :
         x \in AluRegs, y \in AluRegs, n \in {4, 5, 6, 7, 14} }
    \cup { \h7000 + x * 256 + kk : x \in AluRegs, kk \in AluKK }

InitAlu ==
    /\ \E x \in AluRegs, y \in AluRegs, a \in AluBytes, b \in AluBytes,
          f \in {0, 1} :
          v = [[[V_new EXCEPT ![15] = f] EXCEPT ![y] = b] EXCEPT ![x] = a]
    /\ program_counter = CPU_new.pc
    /\ i = CPU_new.i
    /\ stack = CPU_new.st.stack
    /\ stack_pointer = CPU_new.st.stack_pointer
    /\ ram = <<>>
    /\ screen = <<>>
    /\ is_paused = FALSE
    /\ cpu_status = "running"
    /\ panic_msg = ""
    /\ wait_x = 0
    /\ KbInit /\ TmInit /\ ObsInit

AluExec ==
    \E opcode \in AluOpcodes :
        LET env == [delay |-> 0, rand |-> 0, key |-> None]
            r == execute_instruction(CpuState, opcode, env)
        IN  /\ cpu_obs.event = "none"
            /\ SetCpu(r.c)
            /\ cpu_obs' = CpuObsCycle(opcode, r)
            /\ cpu_status' = IF r.c.panic = "" THEN "running" ELSE "panicked"
            /\ UNCHANGED <<is_paused, wait_x, kb_vars, tm_vars, st_obs, kb_obs,
                           tm_obs, mem_obs>>

NextAlu == AluExec
SpecAlu == InitAlu /\ [][NextAlu]_vars

\* The step that runs an instruction of the family n (8XYn) with X # 0xF.
AluStep(n) ==
    /\ cpu_obs.event = "none"
    /\ cpu_obs'.event = "cycle"
    /\ cpu_obs'.op \div 4096 = 8
    /\ cpu_obs'.op % 16 = n
    /\ (cpu_obs'.op \div 256) % 16 # 15

\* The registers X and Y of the instruction that has just run.
ObsX == (cpu_obs.op \div 256) % 16
ObsY == (cpu_obs.op \div 16) % 16

\* C12: after 8XY4 with X # 0xF, V[X] is (V[X] + V[Y]) mod 256 and V[0xF]
\* is 1 if the sum exceeds 255, else 0.
C12_AddWithCarry ==
    [][ AluStep(4) =>
          /\ v'[ObsX'] = (v[ObsX'] + v[ObsY']) % 256
          /\ v'[15] = IF v[ObsX'] + v[ObsY'] > 255 THEN 1 ELSE 0 ]_vars

\* 8014 has run on V0 = 0xFF, V1 = 0x01: V0 = 0x00 and VF = 1.
C12_Witness ==
    /\ cpu_obs.op = \h8014
    /\ v[0] = 0 /\ v[1] = 1 /\ v[15] = 1

\* C13: after 8XY5 with X # 0xF, V[X] is (V[X] - V[Y]) mod 256 and V[0xF]
\* is 1 if the old V[X] >= V[Y], else 0.
C13_SubtractNoBorrow ==
    [][ AluStep(5) =>
          /\ v'[ObsX'] = (v[ObsX'] - v[ObsY'] + 256) % 256
          /\ v'[15] = IF v[ObsX'] >= v[ObsY'] THEN 1 ELSE 0 ]_vars

\* 8015 has run on V0 = 0x01, V1 = 0x02: V0 = 0xFF and VF = 0.
C13_Witness ==
    /\ cpu_obs.op = \h8015
    /\ v[0] = 255 /\ v[1] = 2 /\ v[15] = 0

\* C14: after 8XY7 with X # 0xF, V[X] is (V[Y] - V[X]) mod 256 and V[0xF]
\* is 1 if V[Y] >= the old V[X], equal operands included, else 0.
C14_ReverseSubtract ==
    [][ AluStep(7) =>
          /\ v'[ObsX'] = (v[ObsY'] - v[ObsX'] + 256) % 256
          /\ v'[15] = IF v[ObsY'] >= v[ObsX'] THEN 1 ELSE 0 ]_vars

\* C15: after 8XYE with X # 0xF, V[0xF] is 1 if bit 7 of the old V[X] was
\* set, else 0, and V[X] is (old V[X] * 2) mod 256.
C15_ShiftLeft ==
    [][ AluStep(14) =>
          /\ v'[15] = IF v[ObsX'] >= 128 THEN 1 ELSE 0
          /\ v'[ObsX'] = (v[ObsX'] * 2) % 256 ]_vars

\* C16: after 8XY6 with X # 0xF, V[0xF] is the low bit of the old V[X] and
\* V[X] is the old V[X] divided by 2, rounded down.
C16_ShiftRight ==
    [][ AluStep(6) =>
          /\ v'[15] = v[ObsX'] % 2
          /\ v'[ObsX'] = v[ObsX'] \div 2 ]_vars

\* 8016 has run on V0 = 0xFF with VF = 0 before: V0 = 0x7F and VF = 1.
C16_Witness ==
    /\ cpu_obs.op = \h8016
    /\ v[0] = 127 /\ v[15] = 1

\* C17: 7XKK sets V[X] to (V[X] + KK) mod 256 and changes no other V
\* register and not I; 7A0B on V[0xA] = 5 leaves V[0xA] = 0x10.
C17_AddImmediate ==
    [][ (/\ cpu_obs.event = "none"
         /\ cpu_obs'.event = "cycle"
         /\ cpu_obs'.op \div 4096 = 7) =>
          /\ v'[ObsX'] = (v[ObsX'] + (cpu_obs'.op % 256)) % 256
          /\ \A r \in 0 .. 15 : r # ObsX' => v'[r] = v[r]
          /\ i' = i
          /\ (cpu_obs'.op = \h7A0B /\ v[10] = 5) => v'[10] = 16 ]_vars

\* 7AFF has wrapped V[0xA] = 5 to 4 while VF, set before, is still 1.
C17_Witness ==
    /\ cpu_obs.op = \h7AFF
    /\ v[10] = 4 /\ v[15] = 1

---------------------------------------------------------------------------
(* Claims on the instructions of a running ROM, under Spec *)

\* The opcode a Cycle step fetches in the current state.
FetchedOpcode == ram[program_counter] * 256 + ram[program_counter + 1]

\* A Cycle step whose two opcode bytes lie in memory.
IsFetchStep == IsCycleStep /\ program_counter + 1 < RamLen

\* Bit col (0 = leftmost) of sprite row `row` of the sprite at mem[base..].
SpriteBit(mem, base, row, col) ==
    (mem[base + row] \div (2 ^ (7 - col))) % 2

\* The framebuffer (row-major, 64 columns by 32 rows) after the n sprite
\* rows at mem[base..] are XORed onto scr at (vx, vy), wrapping at the edges.
SpriteDrawn(scr, mem, base, n, vx, vy) ==
    [p \in 0 .. ScreenLen - 1 |->
        IF \E row \in 0 .. n - 1, col \in 0 .. 7 :
              /\ ((vy + row) % 32) * 64 + ((vx + col) % 64) = p
              /\ SpriteBit(mem, base, row, col) = 1
        THEN 1 - scr[p] ELSE scr[p]]

\* C18: DXYN XORs the N sprite rows memory[I .. I+N) onto the framebuffer at
\* ((V[X] + column) mod 64, (V[Y] + row) mod 32), sets V[0xF] to 1 if a set
\* pixel became unset, else 0, and the engine goes on to the next cycle.
C18_DrawSprite ==
    [][ (IsFetchStep /\ FetchedOpcode \div 4096 = 13) =>
          LET op == FetchedOpcode
              drawn == SpriteDrawn(screen, ram, i, op % 16,
                                   v[(op \div 256) % 16], v[(op \div 16) % 16])
          IN  /\ cpu_status' = "running"
              /\ screen' = drawn
              /\ v'[15] = IF \E p \in 0 .. ScreenLen - 1 :
                                screen[p] = 1 /\ drawn[p] = 0
                          THEN 1 ELSE 0 ]_vars

\* The words of the dispatch table: 00E0, 00EE, 0NNN, 1NNN, 2NNN, 3XKK,
\* 4XKK, 5XY0, 6XKK, 7XKK, 8XY0..8XY7, 8XYE, 9XY0, ANNN, BNNN, CXKK, DXYN,
\* EX9E, EXA1, FX07, FX0A, FX15, FX18, FX1E, FX29, FX33, FX55, FX65.
InDispatchTable(op) ==
    LET top == op \div 4096
        n == op % 16
        kk == op % 256
    IN  \/ top \in {0, 1, 2, 3, 4, 6, 7, 10, 11, 12, 13}
        \/ top \in {5, 9} /\ n = 0
        \/ top = 8 /\ n \in (0 .. 7) \cup {14}
        \/ top = 14 /\ kk \in {\h9E, \hA1}
        \/ top = 15 /\ kk \in {\h07, \h0A, \h15, \h18, \h1E, \h29, \h33, \h55, \h65}

\* C19: a cycle that fetches an unrecognized opcode halts the engine (no
\* later cycle runs) with the program counter, V, I, memory, stack and
\* framebuffer as they were before the fetch.
C19_InvalidOpcodeHalts ==
    /\ [][ (IsFetchStep /\ ~InDispatchTable(FetchedOpcode)) =>
              /\ cpu_status' = "panicked"
              /\ UNCHANGED <<program_counter, v, i, ram, stack, stack_pointer,
                             screen>> ]_vars
    /\ [][ cpu_status = "panicked" => UNCHANGED <<cpu_vars, cpu_obs>> ]_vars

\* C20: a word outside the dispatch table is not executed: the cycle that
\* fetches it ends in the invalid-opcode halt and changes no V register and
\* not I.
C20_OnlyTableWordsExecute ==
    [][ (IsFetchStep /\ ~InDispatchTable(FetchedOpcode)) =>
          /\ cpu_status' = "panicked"
          /\ panic_msg' = "Invalid instruction received!"
          /\ v' = v
          /\ i' = i ]_vars

---------------------------------------------------------------------------
(* SpecLoad: CPU::new followed by load_rom of a ROM image *)

\* ROM images by length and fill: byte k (from 1) of the image with fill f.
RomLengths ==
    {0, 1, 2, 3, 255, 3583, 3584, 3585, 3586, 4096, 65023, 65024, 65535,
     65536, 65537, 69120, 69121}
RomFills == 1 .. 6
RomByte(f, k) == (f * 37 + k * (2 * f + 1)) % 256
RomImage(len, f) == [k \in 1 .. len |-> RomByte(f, k)]

\* Loads in one behaviour.
MaxLoads == 1

\* mem_obs records the length and fill of the image, the result of the load
\* and the memory before it.
LoadRomCall ==
    \E len \in RomLengths, f \in RomFills :
        LET r == load_rom([ram |-> ram], RomImage(len, f))
        IN  /\ mem_obs.calls < MaxLoads
            /\ ram' = r.mem
            /\ mem_obs' = [op |-> "load_rom", address |-> \h200,
                           data |-> <<len, f>>, res |-> r.res, val |-> 0,
                           before |-> ram, written |-> <<>>,
                           calls |-> mem_obs.calls + 1]
            /\ UNCHANGED <<program_counter, v, i, stack, stack_pointer, screen,
                           is_paused, cpu_status, panic_msg, wait_x>>
            /\ UNCHANGED <<kb_vars, tm_vars, st_obs, kb_obs, tm_obs, cpu_obs>>

InitLoad ==
    /\ ram = CPU_new.ram
    /\ program_counter = CPU_new.pc
    /\ v = CPU_new.v
    /\ i = CPU_new.i
    /\ stack = CPU_new.st.stack
    /\ stack_pointer = CPU_new.st.stack_pointer
    /\ screen = <<>>
    /\ is_paused = FALSE
    /\ cpu_status = "running"
    /\ panic_msg = ""
    /\ wait_x = 0
    /\ KbInit /\ TmInit /\ ObsInit

NextLoad == LoadRomCall
SpecLoad == InitLoad /\ [][NextLoad]_vars

\* C21: a load of L <= 0xE00 bytes succeeds, memory[0x200 .. 0x200+L) holds
\* the image and every other address, the font table included, is as it was;
\* a load of L > 0xE00 bytes returns an error and leaves the memory as it was.
C21_LoadRomVerbatim ==
    mem_obs.op = "load_rom" =>
        LET len == mem_obs.data[1]
            f == mem_obs.data[2]
        IN  /\ \A k \in 1 .. Len(SPRITES) : mem_obs.before[k - 1] = SPRITES[k]
            /\ len <= 3584 =>
                  /\ mem_obs.res = "Ok"
                  /\ \A a \in 0 .. 4095 :
                        ram[a] = IF a >= 512 /\ a < 512 + len
                                 THEN RomByte(f, a - 512 + 1)
                                 ELSE mem_obs.before[a]
            /\ len > 3584 =>
                  /\ mem_obs.res = "OutOfBounds"
                  /\ ram = mem_obs.before

---------------------------------------------------------------------------
(* SpecRange: read_range calls on the memory of an engine with a ROM loaded *)

\* u16 start addresses and lengths around the end of the memory and of u16.
RangeStarts == {0, 1, 2, 512, 4094, 4095, 4096, 4097, 65534, 65535}
RangeLengths == {0, 1, 2, 3, 16, 3584, 4094, 4095, 4096, 65534, 65535}

\* Calls in one behaviour.
MaxRangeCalls == 1

RamReadRangeCall ==
    \E start_address \in RangeStarts, end_offset \in RangeLengths :
        LET r == RAM_read_range(ram, start_address, end_offset)
        IN  /\ mem_obs.calls < MaxRangeCalls
            /\ mem_obs' = [op |-> "read_range", address |-> start_address,
                           data |-> end_offset, res |-> r.res, val |-> r.val,
                           before |-> <<>>, written |-> <<>>,
                           calls |-> mem_obs.calls + 1]
            /\ UNCHANGED <<cpu_vars, kb_vars, tm_vars, st_obs, kb_obs, tm_obs,
                           cpu_obs>>

InitRange ==
    /\ \E f \in {1, 2} : ram = load_rom(CPU_new, RomImage(3584, f)).mem
    /\ program_counter = CPU_new.pc
    /\ v = CPU_new.v
    /\ i = CPU_new.i
    /\ stack = CPU_new.st.stack
    /\ stack_pointer = CPU_new.st.stack_pointer
    /\ screen = <<>>
    /\ is_paused = FALSE
    /\ cpu_status = "running"
    /\ panic_msg = ""
    /\ wait_x = 0
    /\ KbInit /\ TmInit /\ ObsInit

NextRange == RamReadRangeCall
SpecRange == InitRange /\ [][NextRange]_vars

\* C22: readRange(start, length) with start + length <= 4096 succeeds and
\* returns the length bytes memory[start .. start+length), a range that ends
\* at address 4095 included; with start + length above 4096, or beyond 16
\* bits, it fails with OutOfBounds.
C22_ReadRangeToLastByte ==
    mem_obs.op = "read_range" =>
        LET start == mem_obs.address
            length == mem_obs.data
        IN  /\ start + length <= 4096 =>
                  /\ mem_obs.res = "Ok"
                  /\ mem_obs.val = [k \in 1 .. length |-> ram[start + k - 1]]
            /\ start + length > 4096 => mem_obs.res = "OutOfBounds"

---------------------------------------------------------------------------
(* SpecMem: one memory-transfer instruction (FX33, FX55, FX65) run by        *)
(* execute_instruction on an engine with a ROM loaded, registers loaded and  *)
(* I set before it.                                                          *)

\* Register contents by seed, values of I, and the X of the instruction.
MemSeeds == {0, 1, 2}
MemRegs(seed) == [k \in 0 .. VLen - 1 |-> (k * 37 + seed * 101) % 256]
MemI == {0, 768, 4080, 4092, 4093, 4094, 4095}
MemX == {0, 1, 2, 7, 15}

MemOpcodes ==
    { \hF000 + x * 256 + kk : x \in MemX, kk \in {\h33, \h55, \h65} }

InitMem ==
    /\ \E seed \in MemSeeds : v = MemRegs(seed)
    /\ \E addr \in MemI : i = addr
    /\ ram = load_rom(CPU_new, RomImage(3584, 1)).mem
    /\ program_counter = CPU_new.pc
    /\ stack = CPU_new.st.stack
    /\ stack_pointer = CPU_new.st.stack_pointer
    /\ screen = <<>>
    /\ is_paused = FALSE
    /\ cpu_status = "running"
    /\ panic_msg = ""
    /\ wait_x = 0
    /\ KbInit /\ TmInit /\ ObsInit

MemExec ==
    \E opcode \in MemOpcodes :
        LET env == [delay |-> 0, rand |-> 0, key |-> None]
            r == execute_instruction(CpuState, opcode, env)
        IN  /\ cpu_obs.event = "none"
            /\ SetCpu(r.c)
            /\ cpu_obs' = CpuObsCycle(opcode, r)
            /\ cpu_status' = IF r.c.panic = "" THEN "running" ELSE "panicked"
            /\ UNCHANGED <<is_paused, wait_x, kb_vars, tm_vars, st_obs, kb_obs,
                           tm_obs, mem_obs>>

NextMem == MemExec
SpecMem == InitMem /\ [][NextMem]_vars

\* The step that runs the instruction FXkk.
MemStep(kk) ==
    /\ cpu_obs.event = "none"
    /\ cpu_obs'.event = "cycle"
    /\ cpu_obs'.op \div 4096 = 15
    /\ cpu_obs'.op % 256 = kk

\* C23: FX55 with memory[I .. I+X] inside the memory stores V[k] at
\* memory[I+k] for every k in 0..X and leaves the registers, I and every
\* other memory cell as they were.
C23_StoreRegisters ==
    [][ (MemStep(\h55) /\ i + ObsX' <= 4095) =>
          /\ cpu_status' = "running"
          /\ \A a \in 0 .. 4095 :
                ram'[a] = IF a >= i /\ a <= i + ObsX' THEN v[a - i] ELSE ram[a]
          /\ v' = v
          /\ i' = i ]_vars

\* C24: FX65 with memory[I .. I+X] inside the memory loads memory[I+k] into
\* V[k] for every k in 0..X and leaves the memory, I and the registers above
\* X as they were.
C24_LoadRegisters ==
    [][ (MemStep(\h65) /\ i + ObsX' <= 4095) =>
          /\ cpu_status' = "running"
          /\ \A k \in 0 .. 15 :
                v'[k] = IF k <= ObsX' THEN ram[i + k] ELSE v[k]
          /\ ram' = ram
          /\ i' = i ]_vars

\* C25: FX33 with I <= 4093 writes the hundreds, tens and ones digits of V[X]
\* to memory[I], memory[I+1], memory[I+2], each in 0..9, and changes no
\* register and no other memory cell.
C25_BcdDigits ==
    [][ (MemStep(\h33) /\ i <= 4093) =>
          /\ cpu_status' = "running"
          /\ 100 * ram'[i] + 10 * ram'[i + 1] + ram'[i + 2] = v[ObsX']
          /\ \A k \in 0 .. 2 : ram'[i + k] \in 0 .. 9
          /\ \A a \in 0 .. 4095 : (a < i \/ a > i + 2) => ram'[a] = ram[a]
          /\ v' = v
          /\ i' = i ]_vars

\* F233 has run with I = 4093 on V2 = 175: the last three bytes of the
\* memory are 1, 7, 5.
C25_Witness ==
    /\ cpu_obs.op = \hF233
    /\ i = 4093
    /\ v[2] = 175
    /\ ram[4093] = 1 /\ ram[4094] = 7 /\ ram[4095] = 5
    /\ cpu_status = "running"

---------------------------------------------------------------------------
(* Further claims on the keyboard (SpecKeyboard) and the ALU (SpecAlu) *)

\* C26: a wait that has returned has returned a key (never while the key
\* state is "no key"), and the key code it returned is not 0.
C26_WaitReturnsNonZeroKey ==
    (kb_obs.calls > 0 /\ kb_waiter = "none") =>
        /\ kb_obs.result # None
        /\ kb_obs.result[1] # 0

\* The step that runs 8FYn, whose destination is the flags register.
AluStepF(n) ==
    /\ cpu_obs.event = "none"
    /\ cpu_obs'.event = "cycle"
    /\ cpu_obs'.op \div 4096 = 8
    /\ cpu_obs'.op % 16 = n
    /\ (cpu_obs'.op \div 256) % 16 = 15

\* C27: after 8FY4, 8FY5, 8FY6, 8FY7, 8FYE the register V[0xF] holds the
\* flag (carry, no-borrow, shifted-out bit) and not the arithmetic result;
\* for 8FY6 the flag is the low bit of the V[0xF] before the instruction.
C27_FlagWinsOverResult ==
    /\ [][ AluStepF(4) =>
             v'[15] = IF v[15] + v[ObsY'] > 255 THEN 1 ELSE 0 ]_vars
    /\ [][ AluStepF(5) =>
             v'[15] = IF v[15] >= v[ObsY'] THEN 1 ELSE 0 ]_vars
    /\ [][ AluStepF(6) => v'[15] = v[15] % 2 ]_vars
    /\ [][ AluStepF(7) =>
             v'[15] = IF v[ObsY'] >= v[15] THEN 1 ELSE 0 ]_vars
    /\ [][ AluStepF(14) =>
             v'[15] = IF v[15] >= 128 THEN 1 ELSE 0 ]_vars

---------------------------------------------------------------------------
(* The bounds of the program counter, under Spec *)

\* C28: a cycle whose program counter is below 4095 fetches its opcode from
\* the two addresses PC and PC + 1, both in [0, 4096); a cycle whose program
\* counter is 4095 or more halts the engine with an OutOfBounds failure and
\* changes nothing else; PC + 1, PC + 2 (advance) and a further + 2 (skip)
\* stay below 2^16, as does NNN + V[0] in BNNN.
C28_FetchStaysInMemory ==
    /\ [](program_counter + 2 + 2 < U16)
    /\ [][ IsCycleStep =>
             IF program_counter < 4095
             THEN /\ {program_counter, program_counter + 1} \subseteq DOMAIN ram
                  /\ DOMAIN ram = 0 .. 4095
                  /\ cpu_obs'.event = "cycle"
                  /\ cpu_obs'.op = FetchedOpcode
                  /\ cpu_obs'.op \div 4096 = 11
                        => /\ program_counter' = (cpu_obs'.op % 4096) + v[0]
                           /\ program_counter' < U16
             ELSE /\ cpu_status' = "panicked"
                  /\ panic_msg' = "called Result::unwrap() on an Err value: OutOfBounds"
                  /\ cpu_obs'.event = "fetch_panic"
                  /\ UNCHANGED <<program_counter, ram, v, i, stack,
                                 stack_pointer, screen>> ]_vars

\* A cycle at PC = 4095, whose second opcode byte lies outside the memory,
\* has halted the engine.
C28_Witness ==
    /\ cpu_obs.event = "fetch_panic"
    /\ cpu_obs.pc = 4095
    /\ program_counter = 4095
    /\ cpu_status = "panicked"

=============================================================================
